---- MODULE Spec2Model ----
(***************************************************************************)
(* A model of mini-peewee (src/mpw.py) over the record types declared in   *)
(* src/tests.py: Blog, Entry (foreign key to Blog) and EntryTag (foreign   *)
(* key to Entry).                                                          *)
(*                                                                         *)
(* Text is a sequence of string fragments; concatenating texts is \o.  A   *)
(* Python value is a record [t, v]: t is its Python type, v its payload.   *)
(***************************************************************************)
EXTENDS Integers, Sequences, FiniteSets, TLC

(* ------------------------------ bounds -------------------------------- *)

\* the longest join path (root excluded) the builder is driven to
MaxJoins == 2
\* the most predicates the builder is driven to hold for one record type
MaxPredicates == 2
\* page numbers handed to paginate() are -MaxPage..MaxPage
MaxPage == 2
\* the most order_by clauses one builder accumulates
MaxOrderBy == 1
\* ids of the stored blog rows are 1..MaxRows
MaxRows == 2
\* the most SELECT statements relation reads are driven to execute
MaxQueries == 3
\* the most group_by clauses, and the most having clauses, of one builder
MaxClauses == 1

\* the most Model instances created
MaxInstances == 2

\* the most fields a class body declares
MaxAttrs == 2

(* --------------------------- Python values ---------------------------- *)

PyNone == [t |-> "none", v |-> 0]

PyStr(s) == [t |-> "str", v |-> s]

PyInt(n) == [t |-> "int", v |-> n]

\* a float with one decimal: v is the value in tenths
PyFloat(n) == [t |-> "float", v |-> n]

\* a datetime; v = <<year, month, day, hour, minute, second>>
PyDate(d) == [t |-> "datetime", v |-> d]

\* an instance of record type cls whose id attribute is the Python value id
PyModel(cls, id) == [t |-> "model", v |-> <<cls, id>>]

\* Python truthiness, as used by `value or default`
Truthy(x) ==
    CASE x.t = "none" -> FALSE
      [] x.t = "int" -> x.v # 0
      [] x.t = "float" -> x.v # 0
      [] x.t = "str" -> x.v # <<>>
      [] OTHER -> TRUE

Digit(d) == <<"0", "1", "2", "3", "4", "5", "6", "7", "8", "9">>[d + 1]

RECURSIVE NatToText(_)
NatToText(n) == IF n < 10 THEN <<Digit(n)>>
                ELSE NatToText(n \div 10) \o <<Digit(n % 10)>>

\* "%d" % n
IntToText(n) == IF n < 0 THEN <<"-">> \o NatToText(0 - n) ELSE NatToText(n)

Pad2(n) == <<Digit(n \div 10), Digit(n % 10)>>

\* value.strftime("%Y-%m-%d %H:%M:%S")
strftime(d) ==
    NatToText(d[1]) \o <<"-">> \o Pad2(d[2]) \o <<"-">> \o Pad2(d[3]) \o <<" ">>
    \o Pad2(d[4]) \o <<":">> \o Pad2(d[5]) \o <<":">> \o Pad2(d[6])

\* "%s" % x
Str(x) ==
    CASE x.t = "str" -> x.v
      [] x.t = "int" -> IntToText(x.v)
      [] x.t = "float" -> IntToText(x.v \div 10) \o <<".", Digit(x.v % 10)>>
      [] x.t = "none" -> <<"None">>
      [] x.t = "datetime" -> strftime(x.v)
      [] OTHER -> <<"<object>">>

(* ------------------------------ schema -------------------------------- *)

Models == {"Blog", "Entry", "EntryTag"}

\* CharField.get_attributes: the default max_length
DefaultMaxLength == 255

\* max_length=50 of Entry.title and EntryTag.tag
ShortMaxLength == 50

Fld(name, kind, to, max) == [name |-> name, kind |-> kind, to |-> to, max_length |-> max]

\* _meta.fields of each record type, in registration order (the declared
\* fields, then the synthesized primary key "id")
fields(m) ==
    CASE m = "Blog" ->
           << Fld("title", "CharField", "", DefaultMaxLength),
              Fld("id", "PrimaryKeyField", "", 0) >>
      [] m = "Entry" ->
           << Fld("title", "CharField", "", ShortMaxLength),
              Fld("content", "TextField", "", 0),
              Fld("pub_date", "DateTimeField", "", 0),
              Fld("blog_id", "ForeignKeyField", "Blog", 0),
              Fld("id", "PrimaryKeyField", "", 0) >>
      [] m = "EntryTag" ->
           << Fld("tag", "CharField", "", ShortMaxLength),
              Fld("entry_id", "ForeignKeyField", "Entry", 0),
              Fld("id", "PrimaryKeyField", "", 0) >>

\* _meta.db_table
db_table(m) ==
    CASE m = "Blog" -> "blog"
      [] m = "Entry" -> "entry"
      [] m = "EntryTag" -> "entrytag"

NoField == Fld("", "None", "", 0)

\* the field of fs at the least index of hits, or NoField (Python's None)
FirstField(fs, hits) ==
    IF hits = {} THEN NoField
    ELSE fs[CHOOSE i \in hits : \A j \in hits : i <= j]

\* Meta.get_field_by_name; NoField stands for the raised AttributeError
get_field_by_name(m, name) ==
    LET fs == fields(m)
    IN  FirstField(fs, {i \in 1..Len(fs) : fs[i].name = name})

\* Meta.get_related_field_for_model
get_related_field_for_model(m, other) ==
    LET fs == fields(m)
    IN  FirstField(fs, {i \in 1..Len(fs) :
                          fs[i].kind = "ForeignKeyField" /\ fs[i].to = other})

\* Meta.get_reverse_related_field_for_model
get_reverse_related_field_for_model(m, other) ==
    LET fs == fields(other)
    IN  FirstField(fs, {i \in 1..Len(fs) :
                          fs[i].kind = "ForeignKeyField" /\ fs[i].to = m})

\* rel_exists looking at the forward direction only
rel_exists_ForwardOnly(m, other) ==
    get_related_field_for_model(m, other) # NoField

\* Meta.rel_exists (truthiness of `forward or reverse`)
rel_exists(m, other) ==
    \/ get_related_field_for_model(m, other) # NoField
    \/ get_reverse_related_field_for_model(m, other) # NoField

(* --------------------------- field types ------------------------------ *)

Min(a, b) == IF a < b THEN a ELSE b

\* Field.db_value and its overrides
db_value(f, value) ==
    CASE f.kind = "CharField" ->
           LET s == IF Truthy(value) THEN value.v ELSE <<>>
           IN  PyStr(SubSeq(s, 1, Min(Len(s), f.max_length)))
      [] f.kind = "TextField" ->
           IF Truthy(value) THEN value ELSE PyStr(<<>>)
      [] f.kind = "DateTimeField" ->
           IF value.t # "none"
           THEN PyStr(<<"\"">> \o strftime(value.v) \o <<"\"">>)
           ELSE PyStr(<<"NULL">>)
      [] f.kind \in {"IntegerField", "PrimaryKeyField", "ForeignKeyField"} ->
           IF Truthy(value) THEN value ELSE PyInt(0)
      [] f.kind = "FloatField" ->
           IF Truthy(value) THEN value ELSE PyFloat(0)
      [] OTHER ->
           IF Truthy(value) THEN value ELSE PyStr(<<"NULL">>)

\* Field.lookup_value and its overrides
lookup_value(f, lookup_type, value) ==
    CASE f.kind \in {"CharField", "TextField"} ->
           IF lookup_type \in {"contains", "icontains"}
           THEN db_value(f, value)
           ELSE PyStr(<<"\"">> \o db_value(f, value).v \o <<"\"">>)
      [] f.kind = "ForeignKeyField" ->
           IF value.t = "model" THEN value.v[2]
           ELSE IF Truthy(value) THEN value ELSE PyStr(<<"NULL">>)
      [] OTHER -> db_value(f, value)

(* ------------------------- Python dictionaries ------------------------ *)

\* A dict is the sequence of its <<key, value>> items in insertion order.

HasKey(d, k) == \E i \in 1..Len(d) : d[i][1] = k

DictGet(d, k) == d[CHOOSE i \in 1..Len(d) : d[i][1] = k][2]

\* d[k] = v: an existing key keeps its position, a new key goes last
DictSet(d, k, v) ==
    IF HasKey(d, k)
    THEN [i \in 1..Len(d) |-> IF d[i][1] = k THEN <<k, v>> ELSE d[i]]
    ELSE Append(d, <<k, v>>)

RECURSIVE DictUpdate(_, _)
\* d.update(e)
DictUpdate(d, e) ==
    IF e = <<>> THEN d
    ELSE DictUpdate(DictSet(d, e[1][1], e[1][2]), Tail(e))

\* self._where.setdefault(m, {}), on a map from record types to dicts
SetDefault(w, m) ==
    IF m \in DOMAIN w THEN w
    ELSE [x \in DOMAIN w \cup {m} |-> IF x = m THEN <<>> ELSE w[x]]

\* w with w[m] = d, m a key of w
MapSet(w, m, d) == [x \in DOMAIN w \cup {m} |-> IF x = m THEN d ELSE w[x]]

(* --------------------------- BaseQuery -------------------------------- *)

\* BaseQuery.operations
OperationNames == {"lt", "lte", "gt", "gte", "eq", "in", "icontains", "contains"}

\* BaseQuery.operations[op] % value
operations(op, value) ==
    CASE op = "lt" -> <<"< ">> \o value
      [] op = "lte" -> <<"<= ">> \o value
      [] op = "gt" -> <<"> ">> \o value
      [] op = "gte" -> <<">= ">> \o value
      [] op = "eq" -> <<"= ">> \o value
      [] op = "in" -> <<" IN (">> \o value \o <<")">>
      [] op = "icontains" -> <<"LIKE '%">> \o value \o <<"%' ESCAPE '\\'">>
      [] op = "contains" -> <<"GLOB '*">> \o value \o <<"*'">>

RECURSIVE JoinText(_, _)
\* sep.join(texts)
JoinText(sep, texts) ==
    IF texts = <<>> THEN <<>>
    ELSE IF Len(texts) = 1 THEN texts[1]
    ELSE texts[1] \o sep \o JoinText(sep, Tail(texts))

\* One pass of the loop of parse_query_args over the item <<key, rhs>>.  key
\* is the keyword split at the separator "__": <<"title">> or <<"title","gt">>
\* (no field name of the schema contains the separator, so a keyword of more
\* than two parts names no field).  The result is the error raised, or "ok"
\* and the item to store.
ParseItem(ctx, key, rhs) ==
    LET lhs == IF Len(key) <= 2 THEN key[1] ELSE ""
        op == IF Len(key) > 1 THEN key[Len(key)] ELSE "eq"
        field == get_field_by_name(ctx, lhs)
        each == [i \in 1..Len(rhs) |-> lookup_value(field, op, rhs[i])]
    IN  IF field = NoField THEN [err |-> "AttributeError", item |-> <<>>]
        ELSE IF op = "in"
        THEN IF \E i \in 1..Len(each) : each[i].t # "str"
             THEN [err |-> "TypeError", item |-> <<>>]
             ELSE [err |-> "ok",
                   item |-> <<field.name,
                              operations(op, JoinText(<<",">>, [i \in 1..Len(each) |-> each[i].v]))>>]
        ELSE IF op \notin OperationNames THEN [err |-> "KeyError", item |-> <<>>]
        ELSE [err |-> "ok",
              item |-> <<field.name, operations(op, Str(lookup_value(field, op, rhs)))>>]

\* parsed[field.name] = ...
ParsedStore(parsed, item) == DictSet(parsed, item[1], item[2])

RECURSIVE ParseFrom(_, _, _)
ParseFrom(ctx, query, parsed) ==
    IF query = <<>> THEN [err |-> "ok", parsed |-> parsed]
    ELSE LET r == ParseItem(ctx, query[1][1], query[1][2])
         IN  IF r.err # "ok" THEN [err |-> r.err, parsed |-> <<>>]
             ELSE ParseFrom(ctx, Tail(query), ParsedStore(parsed, r.item))

\* BaseQuery.parse_query_args; query is the sequence of keyword items
parse_query_args(ctx, query) == ParseFrom(ctx, query, <<>>)

\* where without the check for an earlier raw text
where_NoDuplicateCheck(w, ctx, query, kwargs) ==
    LET w1 == SetDefault(w, ctx)
        w2 == IF query # <<>> THEN MapSet(w1, ctx, DictSet(w1[ctx], "__raw__", query))
              ELSE w1
        p == parse_query_args(ctx, kwargs)
    IN  IF kwargs = <<>> THEN [err |-> "ok", w |-> w2]
        ELSE IF p.err # "ok" THEN [err |-> p.err, w |-> w2]
        ELSE [err |-> "ok", w |-> MapSet(w2, ctx, DictUpdate(w2[ctx], p.parsed))]

\* BaseQuery.where: the error raised (or "ok") and self._where as the call
\* leaves it.  query is the raw text (<<>> for ""), kwargs the keyword items.
where(w, ctx, query, kwargs) ==
    LET w1 == SetDefault(w, ctx)
        dup == query # <<>> /\ HasKey(w1[ctx], "__raw__")
        w2 == IF query # <<>> THEN MapSet(w1, ctx, DictSet(w1[ctx], "__raw__", query))
              ELSE w1
        p == parse_query_args(ctx, kwargs)
    IN  IF dup THEN [err |-> "ValueError", w |-> w1]
        ELSE IF kwargs = <<>> THEN [err |-> "ok", w |-> w2]
        ELSE IF p.err # "ok" THEN [err |-> p.err, w |-> w2]
        ELSE [err |-> "ok", w |-> MapSet(w2, ctx, DictUpdate(w2[ctx], p.parsed))]

\* join without the test for a relation
join_Unchecked(joins, ctx, other) ==
    [err |-> "ok", joins |-> Append(joins, other), ctx |-> other]

\* BaseQuery.join: the error raised (or "ok"), self._joins and
\* self.query_context as the call leaves them
join(joins, ctx, other) ==
    IF rel_exists(ctx, other)
    THEN [err |-> "ok", joins |-> Append(joins, other), ctx |-> other]
    ELSE [err |-> "AttributeError", joins |-> joins, ctx |-> ctx]

\* BaseQuery.use_aliases
use_aliases(joins) == Len(joins) > 0

\* combine_field with the alias dropped
combine_field_NoAlias(alias, field_name) == <<field_name>>

\* BaseQuery.combine_field
combine_field(alias, field_name) ==
    IF alias # <<>> THEN alias \o <<".">> \o <<field_name>> ELSE <<field_name>>

\* the loop body with the two sides of ON exchanged
CompileStep_SidesSwapped(st, path, i, w, alias_required) ==
    LET m == path[i]
        count == IF alias_required THEN st.alias_count + 1 ELSE st.alias_count
        alias == IF alias_required THEN <<"t">> \o IntToText(count) ELSE <<>>
        amap == MapSet(st.alias_map, m, alias)
        frags == IF m \in DOMAIN w
                 THEN [k \in 1..Len(w[m]) |->
                         IF w[m][k][1] = "__raw__" THEN w[m][k][2]
                         ELSE combine_field(amap[m], w[m][k][1]) \o <<" ">> \o w[m][k][2]]
                 ELSE <<>>
        from_model == path[i - 1]
        fwd == get_related_field_for_model(from_model, m)
        rev == get_reverse_related_field_for_model(from_model, m)
        left_field == IF fwd # NoField THEN "id" ELSE rev.name
        right_field == IF fwd # NoField THEN fwd.name ELSE "id"
        clause == <<"INNER JOIN ", db_table(m), " AS ">> \o amap[m] \o <<" ON ">>
                  \o combine_field(amap[from_model], left_field) \o <<" = ">>
                  \o combine_field(amap[m], right_field)
        broken == i > 1 /\ fwd = NoField /\ rev = NoField
    IN  [ alias_count |-> count,
          alias_map |-> amap,
          where_with_alias |-> st.where_with_alias \o frags,
          computed_joins |-> IF i > 1 /\ ~broken
                             THEN Append(st.computed_joins, clause)
                             ELSE st.computed_joins,
          err |-> IF broken THEN "AttributeError" ELSE "ok" ]

\* The body of the loop of compile_where for path element i (1-based; the
\* root is element 1).  st carries alias_count, alias_map, where_with_alias,
\* computed_joins and the error raised so far.
CompileStep(st, path, i, w, alias_required) ==
    LET m == path[i]
        count == IF alias_required THEN st.alias_count + 1 ELSE st.alias_count
        alias == IF alias_required THEN <<"t">> \o IntToText(count) ELSE <<>>
        amap == MapSet(st.alias_map, m, alias)
        frags == IF m \in DOMAIN w
                 THEN [k \in 1..Len(w[m]) |->
                         IF w[m][k][1] = "__raw__" THEN w[m][k][2]
                         ELSE combine_field(amap[m], w[m][k][1]) \o <<" ">> \o w[m][k][2]]
                 ELSE <<>>
        from_model == path[i - 1]
        fwd == get_related_field_for_model(from_model, m)
        rev == get_reverse_related_field_for_model(from_model, m)
        left_field == IF fwd # NoField THEN fwd.name ELSE "id"
        right_field == IF fwd # NoField THEN "id" ELSE rev.name
        clause == <<"INNER JOIN ", db_table(m), " AS ">> \o amap[m] \o <<" ON ">>
                  \o combine_field(amap[from_model], left_field) \o <<" = ">>
                  \o combine_field(amap[m], right_field)
        broken == i > 1 /\ fwd = NoField /\ rev = NoField
    IN  [ alias_count |-> count,
          alias_map |-> amap,
          where_with_alias |-> st.where_with_alias \o frags,
          computed_joins |-> IF i > 1 /\ ~broken
                             THEN Append(st.computed_joins, clause)
                             ELSE st.computed_joins,
          err |-> IF broken THEN "AttributeError" ELSE "ok" ]

RECURSIVE CompileFrom(_, _, _, _, _)
CompileFrom(st, path, i, w, alias_required) ==
    IF i > Len(path) \/ st.err # "ok" THEN st
    ELSE CompileFrom(CompileStep(st, path, i, w, alias_required),
                     path, i + 1, w, alias_required)

\* the list compile_where iterates over: the joins, behind the root when
\* there is a predicate map entry or a join
CompilePath(m, w, joins) ==
    IF DOMAIN w # {} \/ Len(joins) > 0 THEN <<m>> \o joins ELSE joins

\* BaseQuery.compile_where
compile_where(m, w, joins) ==
    CompileFrom([ alias_count |-> 0,
                  alias_map |-> [x \in {} |-> <<>>],
                  where_with_alias |-> <<>>,
                  computed_joins |-> <<>>,
                  err |-> "ok" ],
                CompilePath(m, w, joins), 1, w, use_aliases(joins))

(* --------------------------- SelectQuery ------------------------------ *)

\* the default of paginate's paginate_by
DefaultPaginateBy == 20

\* SelectQuery.order_by: self._order_by as the call leaves it.  f is
\* <<field>> for a string argument and <<field, ordering>> for a tuple.
order_by(ob, ctx, f) ==
    LET ordering == IF Len(f) = 2 THEN f[2] ELSE "ASC"
    IN  Append(ob, <<ctx, <<f[1], " ", ordering>> >>)

\* the ORDER BY pieces of SelectQuery.sql
OrderPieces(ob, amap) ==
    [k \in 1..Len(ob) |->
        IF ob[k][1] \in DOMAIN amap
        THEN amap[ob[k][1]] \o <<".">> \o ob[k][2]
        ELSE ob[k][2]]

\* the LIMIT piece of SelectQuery.sql; pg is <<page, paginate_by>>
LimitPiece(pg) ==
    LET page == IF pg[1] > 0 THEN pg[1] - 1 ELSE pg[1]
    IN  <<"LIMIT ">> \o IntToText(pg[2]) \o <<" OFFSET ">> \o IntToText(page * pg[2])

\* SelectQuery.count: the projection it substitutes for self.query
count_query(joins) ==
    IF use_aliases(joins) THEN <<"COUNT(", "t", "1", ".id)">> ELSE <<"COUNT(id)">>

\* SelectQuery.sql: the error raised (or "ok"), the text returned and
\* self.query as the call leaves it.  pg is <<>> for None.
sql(m, q, w, joins, gb, hv, ob, pg) ==
    LET c == compile_where(m, w, joins)
        root_alias == IF m \in DOMAIN c.alias_map THEN c.alias_map[m] ELSE <<>>
        table == IF root_alias # <<>> THEN <<db_table(m), " AS ">> \o root_alias
                 ELSE <<db_table(m)>>
        q2 == IF root_alias # <<>> /\ q = <<"*">> THEN root_alias \o <<".*">> ELSE q
        select == <<"SELECT ">> \o q2 \o <<" FROM ">> \o table
        joined == JoinText(<<"\n">>, c.computed_joins)
        cond == JoinText(<<" AND ">>, c.where_with_alias)
        group_by == JoinText(<<", ">>, gb)
        having == JoinText(<<" AND ">>, hv)
        order == OrderPieces(ob, c.alias_map)
        pieces == <<select>>
                  \o (IF joined # <<>> THEN <<joined>> ELSE <<>>)
                  \o (IF cond # <<>> THEN << <<"WHERE ">> \o cond >> ELSE <<>>)
                  \o (IF group_by # <<>> THEN << <<"GROUP BY ">> \o group_by >> ELSE <<>>)
                  \o (IF having # <<>> THEN << <<"HAVING ">> \o having >> ELSE <<>>)
                  \o (IF order # <<>>
                      THEN << <<"ORDER BY ">> \o JoinText(<<", ">>, order) >> ELSE <<>>)
                  \o (IF pg # <<>> THEN <<LimitPiece(pg)>> ELSE <<>>)
    IN  IF c.err # "ok" THEN [err |-> c.err, text |-> <<>>, query |-> q]
        ELSE [err |-> "ok", text |-> JoinText(<<" ">>, pieces), query |-> q2]

(* ------------------ UpdateQuery, DeleteQuery, InsertQuery ------------- *)

\* UpdateQuery.parse_update: the error raised (or "ok") and the SET list
parse_update(m, uq) ==
    LET sets == [i \in 1..Len(uq) |->
                    <<uq[i][1], "=">>
                    \o Str(lookup_value(get_field_by_name(m, uq[i][1]), "None", uq[i][2]))]
    IN  IF \E i \in 1..Len(uq) : get_field_by_name(m, uq[i][1]) = NoField
        THEN [err |-> "AttributeError", text |-> <<>>]
        ELSE [err |-> "ok", text |-> JoinText(<<", ">>, sets)]

\* UpdateQuery.sql
UpdateQuery_sql(m, uq, w, joins) ==
    LET c == compile_where(m, w, joins)
        s == parse_update(m, uq)
        update == <<"UPDATE ", db_table(m), " SET ">> \o s.text
        cond == JoinText(<<" AND ">>, c.where_with_alias)
        pieces == <<update>> \o (IF cond # <<>> THEN << <<"WHERE ">> \o cond >> ELSE <<>>)
    IN  IF c.err # "ok" THEN [err |-> c.err, text |-> <<>>]
        ELSE IF s.err # "ok" THEN [err |-> s.err, text |-> <<>>]
        ELSE [err |-> "ok", text |-> JoinText(<<" ">>, pieces)]

\* DeleteQuery.sql
DeleteQuery_sql(m, w, joins) ==
    LET c == compile_where(m, w, joins)
        delete == <<"DELETE FROM ", db_table(m)>>
        cond == JoinText(<<" AND ">>, c.where_with_alias)
        pieces == <<delete>> \o (IF cond # <<>> THEN << <<"WHERE ">> \o cond >> ELSE <<>>)
    IN  IF c.err # "ok" THEN [err |-> c.err, text |-> <<>>]
        ELSE [err |-> "ok", text |-> JoinText(<<" ">>, pieces)]

\* InsertQuery.parse_insert and InsertQuery.sql
InsertQuery_sql(m, iq) ==
    LET cols == [i \in 1..Len(iq) |-> <<iq[i][1]>>]
        vals == [i \in 1..Len(iq) |->
                    Str(lookup_value(get_field_by_name(m, iq[i][1]), "None", iq[i][2]))]
    IN  IF \E i \in 1..Len(iq) : get_field_by_name(m, iq[i][1]) = NoField
        THEN [err |-> "AttributeError", text |-> <<>>]
        ELSE [err |-> "ok",
              text |-> <<"INSERT INTO ", db_table(m), " (">> \o JoinText(<<",">>, cols)
                       \o <<") VALUES (">> \o JoinText(<<",">>, vals) \o <<")">>]

\* UpdateQuery.join handing the call on to BaseQuery.join
UpdateQuery_join_Inherited(joins, ctx, other) == join(joins, ctx, other)

\* UpdateQuery.join
UpdateQuery_join(joins, ctx, other) ==
    [err |-> "AttributeError", joins |-> joins, ctx |-> ctx]

\* DeleteQuery.join
DeleteQuery_join(joins, ctx, other) ==
    [err |-> "AttributeError", joins |-> joins, ctx |-> ctx]

\* InsertQuery.join
InsertQuery_join(joins, ctx, other) ==
    [err |-> "AttributeError", joins |-> joins, ctx |-> ctx]

\* InsertQuery.where
InsertQuery_where(w, ctx, query, kwargs) == [err |-> "AttributeError", w |-> w]

(* ------------------------------ Database ------------------------------ *)

\* A database is the map from each created table (by record type) to the
\* sequence of its rows in rowid order.

\* cursor.execute of a statement that names the tables of record types ms:
\* sqlite3 raises OperationalError when one of them does not exist
execute_error(tbls, ms) ==
    IF ms \subseteq DOMAIN tbls THEN "ok" ELSE "OperationalError"

\* Database.create_table
create_table(tbls, m) ==
    IF m \in DOMAIN tbls THEN [err |-> "OperationalError", tables |-> tbls]
    ELSE [err |-> "ok",
          tables |-> [x \in DOMAIN tbls \cup {m} |-> IF x = m THEN <<>> ELSE tbls[x]]]

\* Database.drop_table
drop_table(tbls, m) ==
    IF m \notin DOMAIN tbls THEN [err |-> "OperationalError", tables |-> tbls]
    ELSE [err |-> "ok", tables |-> [x \in DOMAIN tbls \ {m} |-> tbls[x]]]

\* the outcome of SelectQuery.count, given what self.sql() returned (s) and
\* the error of cursor.execute (e): self.query and self._pagination are put
\* back only behind the execution
count_outcome(s, e, q, pg) ==
    IF s.err # "ok"
    THEN [err |-> s.err, statement |-> <<>>, query |-> s.query, pagination |-> <<>>]
    ELSE IF e # "ok"
    THEN [err |-> e, statement |-> s.text, query |-> s.query, pagination |-> <<>>]
    ELSE [err |-> "ok", statement |-> s.text, query |-> q, pagination |-> pg]

\* SelectQuery.count: the error raised (or "ok"), the statement handed to
\* the cursor, and self.query and self._pagination as the call leaves them
count(m, q, w, joins, gb, hv, ob, pg, tbls) ==
    count_outcome(sql(m, count_query(joins), w, joins, gb, hv, ob, <<>>),
                  execute_error(tbls, {m} \cup {joins[i] : i \in 1..Len(joins)}),
                  q, pg)

(* ---------------------- relationship descriptors ---------------------- *)

\* ids of the rows stored in table blog
BlogRows == 1..MaxRows

\* what class QueryResultWrapper defines
QueryResultWrapperAttrs ==
    {"_result_cache", "__init__", "model_from_rowset", "_row_to_dict", "__iter__", "__next__"}

\* Entry(): blog_id is the class attribute None, no cache attribute
NewEntry == [blog_id |-> PyNone, cache |-> PyNone]

\* IntegerField.python_value
python_value(value) == IF Truthy(value) THEN value ELSE PyInt(0)

\* QueryResultWrapper.model_from_rowset for an entry row whose blog_id is k
model_from_rowset(k) == [blog_id |-> python_value(PyInt(k)), cache |-> PyNone]

\* the ids of the blog rows that SELECT * FROM blog WHERE id = <literal of id>
\* returns, in row order
SelectById(id) ==
    LET lit == lookup_value(get_field_by_name("Blog", "id"), "eq", id)
    IN  {k \in BlogRows : PyInt(k) = lit}

\* ForeignRelatedObject.__get__ on Entry.blog: the error raised (or "ok"),
\* the value returned, the instance as the read leaves it and the number of
\* statements executed
ForeignRelatedObject_get(inst) ==
    LET id == inst.blog_id
        rows == SelectById(id)
        first == PyModel("Blog", PyInt(CHOOSE k \in rows : \A j \in rows : k <= j))
    IN  IF Truthy(inst.cache)
        THEN [err |-> "ok", result |-> inst.cache, inst |-> inst, executed |-> 0]
        ELSE IF "next" \notin QueryResultWrapperAttrs
        THEN [err |-> "AttributeError", result |-> PyNone, inst |-> inst, executed |-> 1]
        ELSE IF rows = {}
        THEN [err |-> "StopIteration", result |-> PyNone, inst |-> inst, executed |-> 1]
        ELSE [err |-> "ok", result |-> first,
              inst |-> [inst EXCEPT !.cache = first], executed |-> 1]

\* __set__ that stores the id and leaves the cache alone
ForeignRelatedObject_set_NoCache(inst, obj) ==
    IF obj.t = "model" /\ obj.v[1] = "Blog"
    THEN [err |-> "ok", inst |-> [inst EXCEPT !.blog_id = obj.v[2]]]
    ELSE [err |-> "AssertionError", inst |-> inst]

\* ForeignRelatedObject.__set__ on Entry.blog
ForeignRelatedObject_set(inst, obj) ==
    IF obj.t = "model" /\ obj.v[1] = "Blog"
    THEN [err |-> "ok", inst |-> [blog_id |-> obj.v[2], cache |-> obj]]
    ELSE [err |-> "AssertionError", inst |-> inst]

(* ------------------------------- Model -------------------------------- *)

\* A Model instance is the record of its class and its attributes id,
\* title, blog_id and the cache of the forward relation: 0 for no cache, or
\* the position in `instances` of the cached object.

\* Model.__init__(title=title): the other attributes are the class
\* attributes, None
Model_init(cls, title) ==
    [cls |-> cls, id |-> PyNone, title |-> title, blog_id |-> PyNone, cache |-> 0]

\* getattr(obj, name)
GetAttr(obj, name) ==
    CASE name = "id" -> obj.id
      [] name = "title" -> obj.title
      [] name = "blog_id" -> obj.blog_id
      [] OTHER -> PyNone

\* Model.get_field_dict with "id" popped, as Model.save uses it
get_field_dict(obj) ==
    LET fs == SelectSeq(fields(obj.cls), LAMBDA f : f.name # "id")
    IN  [i \in 1..Len(fs) |-> <<fs[i].name, GetAttr(obj, fs[i].name)>>]

\* the field classes whose column is declared NOT NULL (field_template)
NotNullKinds ==
    {"CharField", "IntegerField", "FloatField", "PrimaryKeyField", "ForeignKeyField"}

\* the statement writes NULL into a NOT NULL column of the table of cls
NullConstraintFails(cls, field_dict) ==
    \E i \in 1..Len(field_dict) :
        LET f == get_field_by_name(cls, field_dict[i][1])
        IN  /\ f.kind \in NotNullKinds
            /\ lookup_value(f, "None", field_dict[i][2]) = PyStr(<<"NULL">>)

\* the row the statement writes for field_dict, with rowid id
RowOf(cls, field_dict, id) ==
    [id |-> id,
     values |-> [i \in 1..Len(field_dict) |->
                    <<field_dict[i][1],
                      lookup_value(get_field_by_name(cls, field_dict[i][1]), "None",
                                   field_dict[i][2])>>]]

\* sqlite's rowid for a row inserted into rows
NextRowId(rows) ==
    IF rows = <<>> THEN 1
    ELSE 1 + (CHOOSE n \in {rows[k].id : k \in 1..Len(rows)} :
                 \A k \in 1..Len(rows) : rows[k].id <= n)

\* cursor.execute of the INSERT statement for field_dict, given the error
\* raised while the statement was built
execute_insert(err, tbls, cls, field_dict) ==
    IF err # "ok" THEN [err |-> err, tables |-> tbls, lastrowid |-> 0]
    ELSE IF execute_error(tbls, {cls}) # "ok"
    THEN [err |-> execute_error(tbls, {cls}), tables |-> tbls, lastrowid |-> 0]
    ELSE IF NullConstraintFails(cls, field_dict)
    THEN [err |-> "IntegrityError", tables |-> tbls, lastrowid |-> 0]
    ELSE [err |-> "ok",
          tables |-> [tbls EXCEPT ![cls] =
                        Append(@, RowOf(cls, field_dict, NextRowId(tbls[cls])))],
          lastrowid |-> NextRowId(tbls[cls])]

\* InsertQuery.execute: the error raised (or "ok"), the tables and lastrowid
InsertQuery_execute(tbls, cls, field_dict) ==
    execute_insert(InsertQuery_sql(cls, field_dict).err, tbls, cls, field_dict)

\* the row is the one WHERE id = <literal of id> selects
RowHit(cls, row, id) ==
    PyInt(row.id) = lookup_value(get_field_by_name(cls, "id"), "eq", id)

\* cursor.execute of the UPDATE statement for field_dict restricted to id,
\* given the error raised while the statement was built
execute_update(err, tbls, cls, field_dict, id) ==
    IF err # "ok" THEN [err |-> err, tables |-> tbls]
    ELSE IF execute_error(tbls, {cls}) # "ok"
    THEN [err |-> execute_error(tbls, {cls}), tables |-> tbls]
    ELSE IF /\ NullConstraintFails(cls, field_dict)
            /\ \E k \in 1..Len(tbls[cls]) : RowHit(cls, tbls[cls][k], id)
    THEN [err |-> "IntegrityError", tables |-> tbls]
    ELSE [err |-> "ok",
          tables |-> [tbls EXCEPT ![cls] =
                        [k \in 1..Len(@) |->
                            IF RowHit(cls, @[k], id) THEN RowOf(cls, field_dict, @[k].id)
                            ELSE @[k]]]]

\* the error raised by update(**field_dict).where(id=id) and its sql(),
\* given what where() returned
update_error(w, cls, field_dict) ==
    IF w.err # "ok" THEN w.err ELSE UpdateQuery_sql(cls, field_dict, w.w, <<>>).err

\* UpdateQuery.execute of update(**field_dict).where(id=id)
UpdateQuery_execute(tbls, cls, field_dict, id) ==
    execute_update(update_error(where([x \in {} |-> <<>>], cls, <<>>, << << <<"id">>, id >> >>),
                                cls, field_dict),
                   tbls, cls, field_dict, id)

\* the branch of Model.save for an instance without an id, given what the
\* insert returned
save_insert(r, tbls, obj) ==
    IF r.err # "ok" THEN [err |-> r.err, tables |-> tbls, obj |-> obj]
    ELSE [err |-> "ok", tables |-> r.tables, obj |-> [obj EXCEPT !.id = PyInt(r.lastrowid)]]

\* the branch of Model.save for an instance with an id, given what the
\* update returned
save_update(u, obj) == [err |-> u.err, tables |-> u.tables, obj |-> obj]

\* save that inserts whether or not the instance has an id
save_AlwaysInsert(tbls, obj) ==
    save_insert(InsertQuery_execute(tbls, obj.cls, get_field_dict(obj)), tbls, obj)

\* Model.save: the error raised (or "ok"), the tables and the instance
save(tbls, obj) ==
    IF Truthy(obj.id)
    THEN save_update(UpdateQuery_execute(tbls, obj.cls, get_field_dict(obj), obj.id), obj)
    ELSE save_insert(InsertQuery_execute(tbls, obj.cls, get_field_dict(obj)), tbls, obj)

\* ForeignRelatedObject.__set__ on the blog attribute of objs[e], handed
\* the object objs[b]
Model_set_blog(objs, e, b) ==
    IF objs[b].cls = "Blog"
    THEN [err |-> "ok",
          instances |-> [objs EXCEPT ![e].blog_id = objs[b].id, ![e].cache = b]]
    ELSE [err |-> "AssertionError", instances |-> objs]

(* ----------------------------- BaseModel ------------------------------ *)

\* Field.add_to_class / ForeignKeyField.add_to_class: the name the field
\* takes for the class attribute it is bound to
add_to_class(attr, kind) ==
    IF kind = "ForeignKeyField" THEN attr \o "_id" ELSE attr

RECURSIVE RegisterFrom(_, _)
\* the loop of BaseModel.__new__ over the class body: _meta.fields (name ->
\* field class, in registration order) and has_primary_key
RegisterFrom(body, st) ==
    IF body = <<>> THEN st
    ELSE RegisterFrom(Tail(body),
                      [fields |-> DictSet(st.fields, add_to_class(body[1][1], body[1][2]),
                                          body[1][2]),
                       has_primary_key |-> st.has_primary_key
                                           \/ body[1][2] = "PrimaryKeyField"])

\* BaseModel.__new__: cls._meta.fields for the class body
BaseModel_new(body) ==
    LET st == RegisterFrom(body, [fields |-> <<>>, has_primary_key |-> FALSE])
    IN  IF ~st.has_primary_key THEN DictSet(st.fields, "id", "PrimaryKeyField")
        ELSE st.fields

\* the reverse read that hands out the related type's builder unfiltered
ReverseForeignRelatedObject_get_Unfiltered(related_model, field_name, id) ==
    [err |-> "ok", model |-> related_model, w |-> [x \in {} |-> <<>>]]

\* ReverseForeignRelatedObject.__get__: the builder returned, a new
\* SelectQuery on related_model (its model and, under w, its _where) after
\* where(<field_name>=id), and the error that call raised (or "ok")
ReverseForeignRelatedObject_get(related_model, field_name, id) ==
    [model |-> related_model]
    @@ where([x \in {} |-> <<>>], related_model, <<>>, << << <<field_name>>, id >> >>)

(* ------------------------------ state --------------------------------- *)

VARIABLES
    model,          \* SelectQuery.model: the root record type
    query,          \* SelectQuery.query: the projection text
    _where,         \* BaseQuery._where: record type -> dict of predicates
    _joins,         \* BaseQuery._joins
    query_context,  \* BaseQuery.query_context: the join-path tip
    _group_by,      \* SelectQuery._group_by
    _having,        \* SelectQuery._having
    _order_by,      \* SelectQuery._order_by: <<record type, clause>> items
    _pagination,    \* SelectQuery._pagination: <<>> (None) or <<page, by>>
    last,           \* the latest call on the builder: its name, arguments, outcome
    instance,       \* an Entry instance: its blog_id and _cache_blog_id attributes
    nqueries,       \* the SELECT statements executed by relation reads so far
    rlast,          \* the latest access to a Model instance: its kind and outcome
    query_class,    \* the class of the builder: SelectQuery, UpdateQuery, ...
    update_query,   \* UpdateQuery.update_query / InsertQuery.insert_query
    tables,         \* the database: created table -> its rows in rowid order
    instances,      \* the Model instances created so far, in creation order
    cls_dict,       \* the body of a class statement: <<attribute, field class>> items
    meta_fields     \* cls._meta.fields of the class defined from cls_dict

builder == <<model, query, _where, _joins, query_context,
             _group_by, _having, _order_by, _pagination>>

rel == <<instance, nqueries, rlast>>

write == <<query_class, update_query>>

db == <<tables, instances>>

schema == <<cls_dict, meta_fields>>

vars == <<model, query, _where, _joins, query_context,
          _group_by, _having, _order_by, _pagination, last,
          instance, nqueries, rlast, query_class, update_query,
          tables, instances, cls_dict, meta_fields>>

(* ------------------------------ inputs -------------------------------- *)

Jan(d) == PyDate(<<2010, 1, d, 0, 0, 0>>)

\* one call where(query, **kwargs): query is the raw text (<<>> for ""),
\* kwargs the sequence of <<keyword, value>> items
Call(q, kw) == [query |-> q, kwargs |-> kw]

Kw(key, rhs) == << <<key, rhs>> >>

\* keyed predicates on one field each
CoreCalls ==
    { Call(<<>>, Kw(<<"title">>, PyStr(<<"a">>))),
      Call(<<>>, Kw(<<"title">>, PyStr(<<"a", "1">>))),
      Call(<<>>, Kw(<<"tag">>, PyStr(<<"t">>))) }

\* raw texts, unknown fields, two operators on one field
WhereCalls ==
    { Call(<<>>, Kw(<<"title">>, PyStr(<<"a">>))),
      Call(<<>>, Kw(<<"title", "gt">>, PyStr(<<"a">>)) \o Kw(<<"title", "lt">>, PyStr(<<"c">>))),
      Call(<<>>, Kw(<<"title", "lt">>, PyStr(<<"c">>))),
      Call(<<"id > 0">>, <<>>),
      Call(<<"id < 9">>, <<>>),
      Call(<<"id > 0">>, Kw(<<"nosuch">>, PyInt(1))),
      Call(<<>>, Kw(<<"nosuch">>, PyInt(1))) }

\* the collections handed to field__in
Collections(kind) ==
    CASE kind \in {"CharField", "TextField"} ->
           { <<>>, <<PyStr(<<"b", "1">>)>>, <<PyStr(<<"b", "1">>), PyStr(<<"b", "3">>)>> }
      [] kind = "DateTimeField" ->
           { <<>>, <<Jan(1)>>, <<Jan(1), Jan(3)>> }
      [] kind = "ForeignKeyField" ->
           { <<>>, <<PyInt(1)>>, <<PyInt(1), PyInt(2)>>, <<PyModel("Blog", PyInt(1))>>, <<PyNone>> }
      [] OTHER ->
           { <<>>, <<PyInt(1)>>, <<PyInt(1), PyInt(2)>>, <<PyInt(0)>> }

\* every field of every record type
AllFields == UNION { {fields(m)[i] : i \in 1..Len(fields(m))} : m \in Models }

\* where(<field>__in=<collection>) for every field, with collections of
\* values of the field's kind
InCalls ==
    UNION { { Call(<<>>, Kw(<<f.name, "in">>, c)) : c \in Collections(f.kind) } :
            f \in AllFields }

\* arguments handed to order_by(): a field name or desc(field)
OrderInputs == { <<"title">>, <<"title", "DESC">> }

\* page numbers handed to paginate()
PageNumbers == (0 - MaxPage)..MaxPage

\* page sizes handed to paginate()
PageSizes == {DefaultPaginateBy, 3}

\* clauses handed to group_by() and having()
GroupClauses == { <<"title">> }

HavingClauses == { <<"COUNT(id) > 1">> }

(* ------------------------------ actions ------------------------------- *)

\* Model.select(): SelectQuery.__init__ with query=None
Init ==
    /\ model \in Models
    /\ query = <<"*">>
    /\ _where = [x \in {} |-> <<>>]
    /\ _joins = <<>>
    /\ query_context = model
    /\ _group_by = <<>>
    /\ _having = <<>>
    /\ _order_by = <<>>
    /\ _pagination = <<>>
    /\ last = [op |-> "select", args |-> <<>>, err |-> "ok"]
    /\ instance = NewEntry
    /\ nqueries = 0
    /\ rlast = [op |-> "new", cached |-> FALSE, err |-> "ok", result |-> PyNone]
    /\ query_class = "SelectQuery"
    /\ update_query = <<>>
    /\ tables = [m \in Models |-> <<>>]
    /\ instances = <<>>
    /\ cls_dict = <<>>
    /\ meta_fields = <<>>

Where(calls) ==
    \E c \in calls :
        LET r == where(_where, query_context, c.query, c.kwargs)
        IN  /\ Len(r.w[query_context]) <= MaxPredicates
            /\ _where' = r.w
            /\ last' = [op |-> "where", args |-> c, err |-> r.err]
            /\ UNCHANGED <<model, query, _joins, query_context,
                           _group_by, _having, _order_by, _pagination, rel, write, db, schema>>

Join ==
    \E other \in Models :
        LET r == join(_joins, query_context, other)
        IN  /\ Len(_joins) < MaxJoins
            /\ _joins' = r.joins
            /\ query_context' = r.ctx
            /\ last' = [op |-> "join", args |-> other, err |-> r.err]
            /\ UNCHANGED <<model, query, _where,
                           _group_by, _having, _order_by, _pagination, rel, write, db, schema>>

OrderBy ==
    \E f \in OrderInputs :
        /\ Len(_order_by) < MaxOrderBy
        /\ _order_by' = order_by(_order_by, query_context, f)
        /\ last' = [op |-> "order_by", args |-> f, err |-> "ok"]
        /\ UNCHANGED <<model, query, _where, _joins, query_context,
                       _group_by, _having, _pagination, rel, write, db, schema>>

\* SelectQuery.paginate
Paginate ==
    \E page_num \in PageNumbers, paginate_by \in PageSizes :
        /\ _pagination' = <<page_num, paginate_by>>
        /\ last' = [op |-> "paginate", args |-> <<page_num, paginate_by>>, err |-> "ok"]
        /\ UNCHANGED <<model, query, _where, _joins, query_context,
                       _group_by, _having, _order_by, rel, write, db, schema>>

\* the text sql() returns for the builder as it stands
Compiled == sql(model, query, _where, _joins, _group_by, _having, _order_by, _pagination)

\* the statement count() executes for the builder as it stands
CountCompiled ==
    sql(model, count_query(_joins), _where, _joins, _group_by, _having, _order_by, <<>>)

Sql ==
    /\ query' = Compiled.query
    /\ last' = [op |-> "sql", args |-> <<>>, err |-> Compiled.err]
    /\ UNCHANGED <<model, _where, _joins, query_context,
                   _group_by, _having, _order_by, _pagination, rel, write, db, schema>>

\* SelectQuery.group_by
GroupBy ==
    \E clause \in GroupClauses :
        /\ Len(_group_by) < MaxClauses
        /\ _group_by' = Append(_group_by, clause)
        /\ last' = [op |-> "group_by", args |-> clause, err |-> "ok"]
        /\ UNCHANGED <<model, query, _where, _joins, query_context,
                       _having, _order_by, _pagination, rel, write, db, schema>>

\* SelectQuery.having
Having ==
    \E clause \in HavingClauses :
        /\ Len(_having) < MaxClauses
        /\ _having' = Append(_having, clause)
        /\ last' = [op |-> "having", args |-> clause, err |-> "ok"]
        /\ UNCHANGED <<model, query, _where, _joins, query_context,
                       _group_by, _order_by, _pagination, rel, write, db, schema>>

\* the values assigned to instance.blog
AssignInputs ==
    { PyModel("Blog", PyInt(k)) : k \in BlogRows }
    \cup { PyModel("Blog", PyNone), PyModel("EntryTag", PyInt(1)), PyNone, PyInt(1) }

\* an entry read back from a stored row
Materialize ==
    \E k \in BlogRows :
        /\ instance' = model_from_rowset(k)
        /\ rlast' = [op |-> "row", cached |-> FALSE, err |-> "ok", result |-> PyNone]
        /\ UNCHANGED <<builder, last, nqueries, write, db, schema>>

\* instance.blog = obj
SetBlog ==
    \E obj \in AssignInputs :
        LET r == ForeignRelatedObject_set(instance, obj)
        IN  /\ instance' = r.inst
            /\ rlast' = [op |-> "set", cached |-> Truthy(instance.cache),
                         err |-> r.err, result |-> obj]
            /\ UNCHANGED <<builder, last, nqueries, write, db, schema>>

\* instance.blog
GetBlog ==
    LET r == ForeignRelatedObject_get(instance)
    IN  /\ nqueries + r.executed <= MaxQueries
        /\ instance' = r.inst
        /\ nqueries' = nqueries + r.executed
        /\ rlast' = [op |-> "get", cached |-> Truthy(instance.cache),
                     err |-> r.err, result |-> r.result]
        /\ UNCHANGED <<builder, last, write, db, schema>>

\* the classes of the builders that write
WriteClasses == {"UpdateQuery", "DeleteQuery", "InsertQuery"}

\* the keyword arguments handed to Model.update() and Model.insert()
WriteInputs ==
    { Kw("title", PyStr(<<"q">>)), Kw("tag", PyStr(<<"q">>)) }

\* the where() calls made on builders that write
WriteCalls == CoreCalls \cup { Call(<<"id > 0">>, <<>>) }

\* Model.update(**query): UpdateQuery.__init__
Update ==
    \E m \in Models, kwargs \in WriteInputs :
        /\ query_class' = "UpdateQuery"
        /\ update_query' = kwargs
        /\ model' = m
        /\ query_context' = m
        /\ _where' = [x \in {} |-> <<>>]
        /\ _joins' = <<>>
        /\ last' = [op |-> "update", args |-> kwargs, err |-> "ok"]
        /\ UNCHANGED <<query, _group_by, _having, _order_by, _pagination, rel, db, schema>>

\* Model.delete(): BaseQuery.__init__
Delete ==
    \E m \in Models :
        /\ query_class' = "DeleteQuery"
        /\ update_query' = <<>>
        /\ model' = m
        /\ query_context' = m
        /\ _where' = [x \in {} |-> <<>>]
        /\ _joins' = <<>>
        /\ last' = [op |-> "delete", args |-> <<>>, err |-> "ok"]
        /\ UNCHANGED <<query, _group_by, _having, _order_by, _pagination, rel, db, schema>>

\* Model.insert(**query): InsertQuery.__init__
Insert ==
    \E m \in Models, kwargs \in WriteInputs :
        /\ query_class' = "InsertQuery"
        /\ update_query' = kwargs
        /\ model' = m
        /\ query_context' = m
        /\ _where' = [x \in {} |-> <<>>]
        /\ _joins' = <<>>
        /\ last' = [op |-> "insert", args |-> kwargs, err |-> "ok"]
        /\ UNCHANGED <<query, _group_by, _having, _order_by, _pagination, rel, db, schema>>

\* where() on the builder, by the method its class resolves to
WriteWhere ==
    \E c \in WriteCalls :
        LET r == IF query_class = "InsertQuery"
                 THEN InsertQuery_where(_where, query_context, c.query, c.kwargs)
                 ELSE where(_where, query_context, c.query, c.kwargs)
        IN  /\ query_context \in DOMAIN r.w => Len(r.w[query_context]) <= MaxPredicates
            /\ _where' = r.w
            /\ last' = [op |-> "where", args |-> c, err |-> r.err]
            /\ UNCHANGED <<model, query, _joins, query_context,
                           _group_by, _having, _order_by, _pagination, rel, write, db, schema>>

\* join() on the builder, by the method its class resolves to
WriteJoin ==
    \E other \in Models :
        LET r == CASE query_class = "UpdateQuery" -> UpdateQuery_join(_joins, query_context, other)
                   [] query_class = "DeleteQuery" -> DeleteQuery_join(_joins, query_context, other)
                   [] query_class = "InsertQuery" -> InsertQuery_join(_joins, query_context, other)
                   [] OTHER -> join(_joins, query_context, other)
        IN  /\ Len(_joins) < MaxJoins
            /\ _joins' = r.joins
            /\ query_context' = r.ctx
            /\ last' = [op |-> "join", args |-> other, err |-> r.err]
            /\ UNCHANGED <<model, query, _where,
                           _group_by, _having, _order_by, _pagination, rel, write, db, schema>>

\* the statement sql() returns for the builder that writes
WriteCompiled ==
    CASE query_class = "UpdateQuery" -> UpdateQuery_sql(model, update_query, _where, _joins)
      [] query_class = "DeleteQuery" -> DeleteQuery_sql(model, _where, _joins)
      [] query_class = "InsertQuery" -> InsertQuery_sql(model, update_query)
      [] OTHER -> [err |-> Compiled.err, text |-> Compiled.text]

\* sql() on a builder that writes
WriteSql ==
    /\ query_class \in WriteClasses
    /\ last' = [op |-> "sql", args |-> <<>>, err |-> WriteCompiled.err]
    /\ UNCHANGED <<builder, rel, write, db, schema>>

\* the where() calls made before counting
CountCalls == { Call(<<>>, Kw(<<"title">>, PyStr(<<"a">>))) }

\* Model.create_table()
CreateTable ==
    \E m \in Models :
        LET r == create_table(tables, m)
        IN  /\ tables' = r.tables
            /\ last' = [op |-> "create_table", args |-> m, err |-> r.err]
            /\ UNCHANGED <<builder, rel, write, instances, schema>>

\* Model.drop_table()
DropTable ==
    \E m \in Models :
        LET r == drop_table(tables, m)
        IN  /\ tables' = r.tables
            /\ last' = [op |-> "drop_table", args |-> m, err |-> r.err]
            /\ UNCHANGED <<builder, rel, write, instances, schema>>

\* SelectQuery.count
CountRows ==
    \E r \in {count(model, query, _where, _joins, _group_by, _having, _order_by,
                    _pagination, tables)} :
        /\ query' = r.query
        /\ _pagination' = r.pagination
        /\ last' = [op |-> "count", args |-> r.statement, err |-> r.err]
        /\ UNCHANGED <<model, _where, _joins, query_context,
                       _group_by, _having, _order_by, rel, write, db, schema>>

\* the titles given to instances
Titles == { PyStr(<<"a">>), PyStr(<<"b">>) }

\* the record types instances are made of
InstanceClasses == {"Blog", "Entry"}

\* Blog(title=...), Entry(title=...)
NewInstance ==
    \E cls \in InstanceClasses :
        /\ Len(instances) < MaxInstances
        /\ instances' = Append(instances, Model_init(cls, PyStr(<<"a">>)))
        /\ rlast' = [op |-> "new", args |-> Len(instances) + 1, err |-> "ok"]
        /\ UNCHANGED <<builder, last, instance, nqueries, write, tables, schema>>

\* obj.title = title
SetTitle ==
    \E i \in 1..Len(instances), title \in Titles :
        /\ instances[i].cls = "Blog"
        /\ instances' = [instances EXCEPT ![i].title = title]
        /\ rlast' = [op |-> "title", args |-> i, err |-> "ok"]
        /\ UNCHANGED <<builder, last, instance, nqueries, write, tables, schema>>

\* entry.blog = obj
AssignBlog ==
    \E e \in 1..Len(instances), b \in 1..Len(instances) :
        LET r == Model_set_blog(instances, e, b)
        IN  /\ instances[e].cls = "Entry"
            /\ instances' = r.instances
            /\ rlast' = [op |-> "assign", args |-> <<e, b>>, err |-> r.err]
            /\ UNCHANGED <<builder, last, instance, nqueries, write, tables, schema>>

\* obj.save()
Save ==
    \E i \in 1..Len(instances) :
        \E r \in {save(tables, instances[i])} :
            /\ tables' = r.tables
            /\ instances' = [instances EXCEPT ![i] = r.obj]
            /\ rlast' = [op |-> "save", args |-> i, err |-> r.err]
            /\ UNCHANGED <<builder, last, instance, nqueries, write, schema>>

\* attribute names and field classes of the class bodies
AttrNames == {"id", "pk", "key", "title"}

FieldClasses == {"PrimaryKeyField", "CharField", "ForeignKeyField"}

\* the class bodies of at most MaxAttrs fields, each attribute bound once
ClassBodies ==
    { body \in UNION { [1..n -> AttrNames \X FieldClasses] : n \in 0..MaxAttrs } :
        \A i, j \in 1..Len(body) : i # j => body[i][1] # body[j][1] }

\* class <name>(Model): <body>
DefineClass ==
    \E body \in ClassBodies :
        /\ cls_dict' = body
        /\ meta_fields' = BaseModel_new(body)
        /\ last' = [op |-> "class", args |-> body, err |-> "ok"]
        /\ UNCHANGED <<builder, rel, write, db>>

\* the reverse relations ForeignKeyField.add_to_class installs: the type
\* that carries the accessor, the type that owns the key, the key's name
ReverseRelations ==
    UNION { { <<fields(m)[i].to, m, fields(m)[i].name>> :
                i \in {k \in 1..Len(fields(m)) : fields(m)[k].kind = "ForeignKeyField"} } :
            m \in Models }

\* the ids of the instances the reverse relation is read on
OwnerIds == { PyInt(k) : k \in BlogRows } \cup { PyNone }

\* blog.entry_set, entry.entrytag_set: the builder the read returns takes
\* the place of the one held
ReverseGet ==
    \E rr \in ReverseRelations, id \in OwnerIds :
        \E r \in {ReverseForeignRelatedObject_get(rr[2], rr[3], id)} :
            /\ model' = r.model
            /\ query_context' = r.model
            /\ query' = <<"*">>
            /\ _where' = r.w
            /\ _joins' = <<>>
            /\ _group_by' = <<>>
            /\ _having' = <<>>
            /\ _order_by' = <<>>
            /\ _pagination' = <<>>
            /\ last' = [op |-> "reverse", args |-> <<rr[1], rr[2], id>>, err |-> r.err,
                        chained |-> /\ last.op # "reverse"
                                    /\ model = rr[2]
                                    /\ _order_by # <<>>
                                    /\ rr[2] \in DOMAIN _where
                                    /\ Len(_where[rr[2]]) > 1]
            /\ UNCHANGED <<rel, write, db, schema>>

\* joins and keyed predicates
Next == Where(CoreCalls) \/ Join \/ Sql

Spec == Init /\ [][Next]_vars

\* raw and keyed predicates, accepted and rejected
NextWhere == Where(WhereCalls) \/ Join

SpecWhere == Init /\ [][NextWhere]_vars

\* set-membership predicates on every field
NextIn == Where(InCalls) \/ Sql

SpecIn == Init /\ [][NextIn]_vars

\* ordering across joins
NextOrder == Where(CoreCalls) \/ Join \/ OrderBy \/ Sql

SpecOrder == Init /\ [][NextOrder]_vars

\* pagination, grouping
NextPage == Paginate \/ GroupBy \/ Having \/ Sql

SpecPage == Init /\ [][NextPage]_vars

\* the forward relation Entry.blog
NextRel == Materialize \/ SetBlog \/ GetBlog

SpecRel == Init /\ [][NextRel]_vars

\* builders that write
NextWrite == Update \/ Delete \/ Insert \/ WriteWhere \/ WriteJoin \/ WriteSql

SpecWrite == Init /\ [][NextWrite]_vars

\* counting over joined, paginated builders, with tables present or not
NextCount == Where(CountCalls) \/ Join \/ Paginate \/ CreateTable \/ DropTable \/ CountRows

SpecCount == Init /\ [][NextCount]_vars

\* instances saved and related to each other
NextSave == NewInstance \/ SetTitle \/ AssignBlog \/ Save

SpecSave == Init /\ [][NextSave]_vars

\* record-type definitions
NextSchema == DefineClass

SpecSchema == Init /\ [][NextSchema]_vars

\* reverse relations read and chained onto
NextReverse == ReverseGet \/ Where(CoreCalls) \/ OrderBy \/ Sql

SpecReverse == Init /\ [][NextReverse]_vars

(* ------------------------------ claims -------------------------------- *)

\* the join path with its root
Path == <<model>> \o _joins

\* the alias t<i>
Alias(i) == <<"t", Digit(i)>>

\* the number of occurrences of fragment f in text
Count(text, f) == Cardinality({i \in 1..Len(text) : text[i] = f})

\* the foreign-key column of type a that references type b
FkColumn(a, b) ==
    LET fs == fields(a)
    IN  fs[CHOOSE i \in 1..Len(fs) : fs[i].kind = "ForeignKeyField" /\ fs[i].to = b].name

OwnsFk(a, b) ==
    \E i \in 1..Len(fields(a)) : fields(a)[i].kind = "ForeignKeyField" /\ fields(a)[i].to = b

\* the predicates held for path position i, each with alias t<i>
AliasedPredicates(i) ==
    LET m == Path[i]
        d == IF m \in DOMAIN _where THEN _where[m] ELSE <<>>
    IN  [k \in 1..Len(d) |->
            IF d[k][1] = "__raw__" THEN d[k][2]
            ELSE Alias(i) \o <<".", d[k][1], " ">> \o d[k][2]]

\* a path of three pairwise distinct types, each owning a foreign key to the next
ForwardChain ==
    /\ Len(Path) = 3
    /\ Path[1] # Path[2] /\ Path[2] # Path[3] /\ Path[1] # Path[3]
    /\ OwnsFk(Path[1], Path[2])
    /\ OwnsFk(Path[2], Path[3])

\* the statement a forward chain A -> B -> C has to compile to
ChainText ==
    LET preds == AliasedPredicates(1) \o AliasedPredicates(2) \o AliasedPredicates(3)
    IN  <<"SELECT ", "t", "1", ".*", " FROM ", db_table(Path[1]), " AS ", "t", "1", " ",
          "INNER JOIN ", db_table(Path[2]), " AS ", "t", "2", " ON ",
          "t", "1", ".", FkColumn(Path[1], Path[2]), " = ", "t", "2", ".", "id", "\n",
          "INNER JOIN ", db_table(Path[3]), " AS ", "t", "3", " ON ",
          "t", "2", ".", FkColumn(Path[2], Path[3]), " = ", "t", "3", ".", "id">>
        \o (IF preds = <<>> THEN <<>>
            ELSE <<" ", "WHERE ">> \o JoinText(<<" AND ">>, preds))

\* the builder select(Entry).where(title="a1").join(Blog).where(title="a")
EntryBlogScenario ==
    /\ model = "Entry"
    /\ _joins = <<"Blog">>
    /\ DOMAIN _where = {"Entry", "Blog"}
    /\ _where["Entry"] = << <<"title", <<"= ", "\"", "a", "1", "\"">> >> >>
    /\ _where["Blog"] = << <<"title", <<"= ", "\"", "a", "\"">> >> >>

\* SELECT t1.* FROM entry AS t1 INNER JOIN blog AS t2 ON t1.blog_id = t2.id
\* WHERE t1.title = "a1" AND t2.title = "a"
EntryBlogText ==
    <<"SELECT ", "t", "1", ".*", " FROM ", "entry", " AS ", "t", "1", " ",
      "INNER JOIN ", "blog", " AS ", "t", "2", " ON ",
      "t", "1", ".", "blog_id", " = ", "t", "2", ".", "id", " ",
      "WHERE ", "t", "1", ".", "title", " ", "= ", "\"", "a", "1", "\"", " AND ",
      "t", "2", ".", "title", " ", "= ", "\"", "a", "\"">>

\* C1: a join path A -> B -> C of pairwise distinct types, each owning a
\* foreign key to the next, compiles to exactly two INNER JOIN clauses with
\* A, B, C aliased t1, t2, t3 and a WHERE clause that ANDs the predicates of
\* A, then B, then C; select(Entry).where(title="a1").join(Blog)
\* .where(title="a") compiles to exactly the text of the test.
C1_JoinCompilation ==
    /\ ForwardChain =>
         /\ Compiled.err = "ok"
         /\ Count(Compiled.text, "INNER JOIN ") = 2
         /\ Compiled.text = ChainText
    /\ EntryBlogScenario =>
         /\ Compiled.err = "ok"
         /\ Compiled.text = EntryBlogText

\* C1 witness: sql() has run on a three-type forward chain that holds a
\* predicate for each of its types
C1_Witness ==
    /\ ForwardChain
    /\ \A i \in 1..3 : Path[i] \in DOMAIN _where /\ _where[Path[i]] # <<>>
    /\ last.op = "sql"
    /\ last.err = "ok"

\* C1 second witness state: the two-type scenario of the test
C1_ScenarioReached == EntryBlogScenario /\ last.op = "sql"

\* the positions of text that declare an alias
AsPositions(text) == {i \in 1..Len(text) : text[i] = " AS "}

\* every alias declaration of text declares t<k>, k its rank among them
PositionalAliases(text) ==
    \A i \in AsPositions(text) :
        <<text[i + 1], text[i + 2]>>
            = Alias(1 + Cardinality({j \in AsPositions(text) : j < i}))

\* text reads SELECT <projection> FROM <root table> AS t1 ...
RootIsT1(text, projection) ==
    LET n == Len(projection)
    IN  /\ Len(text) >= n + 6
        /\ SubSeq(text, 1, n + 6)
             = <<"SELECT ">> \o projection \o <<" FROM ", db_table(model), " AS ", "t", "1">>

\* C2: on every join path that join() accepts, including one that revisits
\* a record type, the i-th path element is aliased t<i>: the root table is
\* rendered <root-table> AS t1, the default projection and count() refer to
\* the root through t1, and no two path positions share an alias.
C2_PositionalAliases ==
    (_joins # <<>> /\ Compiled.err = "ok") =>
        /\ Count(Compiled.text, " AS ") = Len(Path)
        /\ PositionalAliases(Compiled.text)
        /\ query = <<"*">> => RootIsT1(Compiled.text, <<"t", "1", ".*">>)
        /\ RootIsT1(CountCompiled.text, <<"COUNT(", "t", "1", ".id)">>)

\* the renderings the claim allows for one order_by item <<type, clause>>:
\* the bare clause on an empty join path, else the clause behind the alias of
\* a path position that holds the item's type
OrderRenderings(item) ==
    IF _joins = <<>> THEN {item[2]}
    ELSE {Alias(i) \o <<".">> \o item[2] : i \in {j \in 1..Len(Path) : Path[j] = item[1]}}

RECURSIVE OrderTexts(_)
\* the comma-joined renderings of the items of ob
OrderTexts(ob) ==
    IF Len(ob) = 1 THEN OrderRenderings(ob[1])
    ELSE {a \o <<", ">> \o b : a \in OrderRenderings(ob[1]), b \in OrderTexts(Tail(ob))}

\* C3: each order_by clause is bound to the join-path tip of the moment of
\* the call and rendered <alias of that type>.<field> <direction> when the
\* join path is non-empty, and as the bare <field> <direction> (no alias, no
\* leading dot) when the join path is empty, whether or not the builder
\* holds where predicates.
C3_OrderByRendering ==
    (_order_by # <<>> /\ Compiled.err = "ok") =>
        \E i \in 1..Len(Compiled.text) :
            /\ Compiled.text[i] = "ORDER BY "
            /\ SubSeq(Compiled.text, i + 1, Len(Compiled.text)) \in OrderTexts(_order_by)

\* the step is a where() or join() call that raised
Rejected == last'.op \in {"where", "join"} /\ last'.err # "ok"

\* C4: a rejected builder call (where() with an unknown field, where(raw,
\* keyed) whose keyed part names an unknown field, where() with a second raw
\* text, join() to an unrelated type) leaves the join path, the tip and the
\* predicate map, its set of keys included, as they were before the call.
C4_RejectedCallLeavesState == [][Rejected => builder' = builder]_vars

\* the AND-joined fragments of the WHERE clause compiled from predicate map w
Fragments(w) == compile_where(model, w, _joins).where_with_alias

\* the number of predicates a where() call supplies
Supplied(c) == Len(c.kwargs) + (IF c.query # <<>> THEN 1 ELSE 0)

\* the number of path positions that hold the tip's type
TipPositions == Cardinality({i \in 1..Len(Path) : Path[i] = query_context})

\* C5: every predicate supplied through where() calls on the same tip is
\* retained: each accepted call adds one AND-joined fragment per supplied
\* predicate (for each path position of the tip's type), also for two
\* predicates with different operators on one field, and a raw text is
\* ANDed together with the keyed ones.
C5_PredicatesRetained ==
    [][(last'.op = "where" /\ last'.err = "ok") =>
          Len(Fragments(_where')) = Len(Fragments(_where)) + TipPositions * Supplied(last'.args)]_vars

\* LIMIT s OFFSET (p-1)*s for p > 0, LIMIT s OFFSET 0 for p <= 0
ClampedLimit(p, s) ==
    <<"LIMIT ">> \o IntToText(s) \o <<" OFFSET ">>
    \o IntToText(IF p > 0 THEN (p - 1) * s ELSE 0)

\* text ends with the piece tail
EndsWith(text, tail) ==
    /\ Len(text) >= Len(tail)
    /\ SubSeq(text, Len(text) - Len(tail) + 1, Len(text)) = tail

\* C6: paginate(p, s) compiles to LIMIT s OFFSET (p-1)*s when p > 0 and to
\* LIMIT s OFFSET 0 for every p <= 0; the rendered offset is never negative.
C6_PaginationClamped ==
    _pagination # <<>> =>
        /\ Compiled.err = "ok"
        /\ EndsWith(Compiled.text, <<" ">> \o ClampedLimit(_pagination[1], _pagination[2]))
        /\ Count(Compiled.text, "-") = 0

\* the instance stores the id of a stored blog row and caches no record
StoredUncached ==
    /\ ~Truthy(instance.cache)
    /\ \E k \in BlogRows : instance.blog_id = PyInt(k)

\* C7: reading the forward relation of an instance that has a stored
\* foreign-key value but no cached related record returns the record of the
\* referenced type whose primary key equals the stored value and caches it,
\* so that later reads return the same record without another query.
C7_ForwardReadResolves ==
    [][rlast'.op = "get" =>
          /\ StoredUncached =>
               /\ rlast'.err = "ok"
               /\ rlast'.result = PyModel("Blog", instance.blog_id)
               /\ instance' = [instance EXCEPT !.cache = PyModel("Blog", instance.blog_id)]
          /\ Truthy(instance.cache) =>
               /\ rlast'.err = "ok"
               /\ rlast'.result = instance.cache
               /\ nqueries' = nqueries
               /\ instance' = instance]_vars

\* the field a where(<field>__in=<collection>) call names, on the tip
InField == get_field_by_name(query_context, last.args.kwargs[1][1][1])

\* the collection the call hands over
InCollection == last.args.kwargs[1][2]

\* IN (l1,...,ln), li the literal of the i-th element of the collection
InFragment ==
    <<" IN (">>
    \o JoinText(<<",">>, [i \in 1..Len(InCollection) |->
                            Str(lookup_value(InField, "in", InCollection[i]))])
    \o <<")">>

\* C8: for every field kind and every finite collection C,
\* where(field__in=C) is accepted and produces the fragment IN (l1,...,ln)
\* of the per-element literals; for empty C the fragment is IN ().
C8_InAccepted ==
    (last.op = "where" /\ InField # NoField) =>
        /\ last.err = "ok"
        /\ HasKey(_where[query_context], InField.name)
        /\ DictGet(_where[query_context], InField.name) = InFragment

\* the predicates map w records under type m
Preds(w, m) == IF m \in DOMAIN w THEN w[m] ELSE <<>>

\* a join(T) step succeeds exactly when a foreign key links the tip and T,
\* appends T and makes it the tip; otherwise it raises and changes nothing
JoinStep ==
    last'.op = "join" =>
        LET T == last'.args
        IN  /\ last'.err = "ok" <=> (OwnsFk(query_context, T) \/ OwnsFk(T, query_context))
            /\ last'.err = "ok" =>
                 /\ _joins' = Append(_joins, T)
                 /\ query_context' = T
                 /\ _where' = _where
            /\ last'.err # "ok" =>
                 /\ last'.err = "AttributeError"
                 /\ UNCHANGED <<_joins, query_context, _where>>

\* an accepted where() step records every keyed predicate under the tip
RecordedUnderTip ==
    (last'.op = "where" /\ last'.err = "ok") =>
        \A i \in 1..Len(last'.args.kwargs) :
            HasKey(Preds(_where', query_context), last'.args.kwargs[i][1][1])

\* C9 as stated: join(T) succeeds exactly when the tip owns a foreign key to
\* T or T owns one to the tip, else fails; on success T is appended and
\* becomes the tip, every predicate of a later where() is recorded under T
\* and the predicates recorded under earlier path types are unchanged.
C9_EarlierTypesUnchanged ==
    [][/\ JoinStep
       /\ RecordedUnderTip
       /\ last'.op = "where" =>
            \A i \in 1..(Len(Path) - 1) : Preds(_where', Path[i]) = Preds(_where, Path[i])]_vars

\* C9 amended: as stated, with the predicates recorded under every record
\* type other than the tip T unchanged by a later where().
C9_JoinMovesTip ==
    [][/\ JoinStep
       /\ RecordedUnderTip
       /\ last'.op = "where" =>
            \A m \in Models \ {query_context} : Preds(_where', m) = Preds(_where, m)]_vars

\* C9 witness: after a join, a where() call has recorded a predicate under
\* the new tip while an earlier path type of another kind holds predicates
C9_Witness ==
    /\ _joins # <<>>
    /\ last.op = "where"
    /\ last.err = "ok"
    /\ Preds(_where, query_context) # <<>>
    /\ \E i \in 1..(Len(Path) - 1) :
          Path[i] # query_context /\ Preds(_where, Path[i]) # <<>>

\* the number of raw-text predicates among the items of dict d
RawCount(d) == Cardinality({i \in 1..Len(d) : d[i][1] = "__raw__"})

\* a where() step that hands over raw text: refused with the first text kept
\* when the tip's type holds raw text, stored otherwise
RawStep ==
    (last'.op = "where" /\ last'.args.query # <<>>) =>
        IF HasKey(Preds(_where, query_context), "__raw__")
        THEN /\ last'.err = "ValueError"
             /\ _where' = _where
        ELSE /\ last'.err # "ValueError"
             /\ HasKey(Preds(_where', query_context), "__raw__")
             /\ DictGet(_where'[query_context], "__raw__") = last'.args.query

\* C10: in every builder state reached by where() and join() calls each
\* record type has at most one raw-text predicate; where() with non-empty
\* raw text while the tip's type holds raw text fails (ValueError) and the
\* first raw text is kept; raw text given after join() moved the tip to a
\* type without raw text is accepted.
C10_OneRawPerType ==
    /\ [](\A m \in DOMAIN _where : RawCount(_where[m]) <= 1)
    /\ [][RawStep]_vars

\* C10 witness: a second raw text was refused on a tip reached by join(),
\* while the root holds a raw text of its own and the tip keeps its first
C10_Witness ==
    /\ _joins # <<>>
    /\ query_context # model
    /\ last.op = "where"
    /\ last.err = "ValueError"
    /\ HasKey(Preds(_where, model), "__raw__")
    /\ HasKey(Preds(_where, query_context), "__raw__")
    /\ DictGet(_where[query_context], "__raw__") # last.args.query

\* the tip's predicates with bare column names, in the order they are held
BarePredicates ==
    LET d == Preds(_where, model)
    IN  [k \in 1..Len(d) |->
            IF d[k][1] = "__raw__" THEN d[k][2] ELSE <<d[k][1], " ">> \o d[k][2]]

\* every keyword of call c names a field of record type m
KnownFields(m, c) ==
    \A i \in 1..Len(c.kwargs) :
        \E j \in 1..Len(fields(m)) : fields(m)[j].name = c.kwargs[i][1][1]

\* a join() step on a builder that writes, or a where() step on an Insert
\* builder, raises and leaves the builder as it was
UnsupportedStep ==
    (\/ last'.op = "join" /\ query_class \in WriteClasses
     \/ last'.op = "where" /\ query_class = "InsertQuery") =>
        /\ last'.err = "AttributeError"
        /\ builder' = builder
        /\ write' = write

\* a where() step on an Update or Delete builder is accepted
AcceptedStep ==
    (/\ last'.op = "where"
     /\ query_class \in {"UpdateQuery", "DeleteQuery"}
     /\ KnownFields(model, last'.args)
     /\ ~(last'.args.query # <<>> /\ HasKey(Preds(_where, model), "__raw__"))) =>
        /\ last'.err = "ok"
        /\ Preds(_where', model) # <<>>

\* the statement of an Update or Delete builder: no join, and its predicates
\* under bare column names behind WHERE
RestrictedStatement ==
    (query_class \in {"UpdateQuery", "DeleteQuery"} /\ WriteCompiled.err = "ok") =>
        /\ _joins = <<>>
        /\ Count(WriteCompiled.text, "INNER JOIN ") = 0
        /\ BarePredicates # <<>> =>
             EndsWith(WriteCompiled.text,
                      <<" ", "WHERE ">> \o JoinText(<<" AND ">>, BarePredicates))
        /\ BarePredicates = <<>> => Count(WriteCompiled.text, "WHERE ") = 0

\* C11: in every builder state, join() on an Insert, Update or Delete builder
\* and where() on an Insert builder fail (AttributeError, the code's
\* UnsupportedOperation) and leave the builder unchanged, while where() on an
\* Update or Delete builder is accepted and restricts the compiled statement
\* with a WHERE clause that uses bare column names.
C11_WriteBuilders ==
    /\ [][UnsupportedStep /\ AcceptedStep]_vars
    /\ []RestrictedStatement

\* C11 witness: an Update builder that refused a join() compiles to a
\* statement restricted by the predicates it holds
C11_Witness ==
    /\ query_class = "UpdateQuery"
    /\ last.op = "sql"
    /\ last.err = "ok"
    /\ Len(BarePredicates) = 2
    /\ Count(WriteCompiled.text, "WHERE ") = 1

\* C11 witness of the rejections: an Insert builder refused where()
C11_InsertRefused ==
    /\ query_class = "InsertQuery"
    /\ last.op = "where"
    /\ last.err = "AttributeError"
    /\ _where = [x \in {} |-> <<>>]

\* C12: count() on a Select builder leaves the builder's projection text,
\* pagination, join path and predicates as they were before the call, on
\* every outcome of the call (a failing execution of the count statement
\* included), and the count statement carries no LIMIT/OFFSET even when the
\* builder is paginated.
C12_CountLeavesBuilder ==
    [][last'.op = "count" =>
         /\ query' = query
         /\ _pagination' = _pagination
         /\ _joins' = _joins
         /\ _where' = _where
         /\ query_context' = query_context
         /\ Count(last'.args, "LIMIT ") = 0
         /\ Count(last'.args, " OFFSET ") = 0]_vars

\* obj is an instance of the type Entry.blog refers to
IsBlog(obj) == obj.t = "model" /\ obj.v[1] = "Blog"

\* an assignment to instance.blog: a Blog is stored by id and cached, so
\* that a read returns it without a query; anything else is refused and
\* leaves the stored id and the cache as they were
AssignStep ==
    rlast'.op = "set" =>
        LET obj == rlast'.result
            read == ForeignRelatedObject_get(instance')
        IN  IF IsBlog(obj)
            THEN /\ rlast'.err = "ok"
                 /\ instance'.blog_id = obj.v[2]
                 /\ instance'.cache = obj
                 /\ read.err = "ok"
                 /\ read.result = obj
                 /\ read.executed = 0
            ELSE /\ rlast'.err = "AssertionError"
                 /\ instance' = instance

\* the read that follows an accepted assignment returns the assigned record
ReadAfterAssign ==
    (rlast'.op = "get" /\ rlast.op = "set" /\ rlast.err = "ok") =>
        /\ rlast'.err = "ok"
        /\ rlast'.result = rlast.result
        /\ instance'.blog_id = rlast.result.v[2]
        /\ nqueries' = nqueries

\* C13: assigning a record obj of the referenced type to a forward relation
\* sets the stored foreign-key id to obj.id and caches obj, so that the next
\* read returns obj and the raw id equals obj.id, also after a re-assignment;
\* assigning a value that is not an instance of the referenced type fails
\* (AssertionError, the code's TypeMismatch) and leaves the stored id and the
\* cached record unchanged.
C13_ForwardAssignment == [][AssignStep /\ ReadAfterAssign]_vars

\* C13 witness: a record assigned over an earlier assignment has been read
\* back
C13_Witness ==
    /\ rlast.op = "get"
    /\ rlast.cached
    /\ rlast.err = "ok"
    /\ rlast.result = PyModel("Blog", PyInt(2))
    /\ instance.blog_id = PyInt(2)
    /\ instance.cache = rlast.result

\* C13 witness of the refusal: a value of another type was refused while a
\* record was cached
C13_Refused ==
    /\ rlast.op = "set"
    /\ rlast.err = "AssertionError"
    /\ rlast.cached
    /\ rlast.result = PyNone
    /\ IsBlog(instance.cache)

\* the positions of the instances of record type cls that have an id
Saved(cls) ==
    {i \in 1..Len(instances) : instances[i].cls = cls /\ instances[i].id # PyNone}

\* the rows of each table carry the ids 1..N in insertion order, N being the
\* number of instances saved, and these instances hold the ids 1..N
IdsInSequence ==
    \A cls \in InstanceClasses :
        /\ \A k \in 1..Len(tables[cls]) : tables[cls][k].id = k
        /\ Cardinality(Saved(cls)) = Len(tables[cls])
        /\ {instances[i].id : i \in Saved(cls)} = {PyInt(k) : k \in 1..Len(tables[cls])}

\* the title column of a stored row
TitleOf(row) == DictGet(row.values, "title")

\* a save() step: without an id it appends one row under the next id and
\* gives the instance that id (it fails, adding nothing, only for an entry
\* without a stored blog id); with an id it rewrites the row of that id and
\* no other, and adds none
SaveStep ==
    rlast'.op = "save" =>
        LET i == rlast'.args
            obj == instances[i]
            rows == tables[obj.cls]
            after == tables'[obj.cls]
            n == Len(rows)
        IN  /\ \A c \in Models \ {obj.cls} : tables'[c] = tables[c]
            /\ \A j \in 1..Len(instances) : j # i => instances'[j] = instances[j]
            /\ IF obj.id = PyNone
               THEN /\ rlast'.err # "ok" <=> (obj.cls = "Entry" /\ obj.blog_id = PyNone)
                    /\ rlast'.err = "ok" =>
                         /\ Len(after) = n + 1
                         /\ SubSeq(after, 1, n) = rows
                         /\ after[n + 1].id = n + 1
                         /\ instances'[i] = [obj EXCEPT !.id = PyInt(n + 1)]
                    /\ rlast'.err # "ok" => tables' = tables /\ instances' = instances
               ELSE /\ Len(after) = n
                    /\ instances' = instances
                    /\ \A k \in 1..n : PyInt(rows[k].id) # obj.id => after[k] = rows[k]
                    /\ rlast'.err = "ok" =>
                         \A k \in 1..n :
                             PyInt(rows[k].id) = obj.id =>
                                 /\ after[k].id = rows[k].id
                                 /\ TitleOf(after[k]) = PyStr(<<"\"">> \o obj.title.v \o <<"\"">>)

\* C14: starting from empty tables, save() on an instance whose id is unset
\* inserts one row and assigns the instance the next id, so N new instances
\* receive the ids 1..N in save order; save() on an instance whose id is set
\* updates the row of that id and never adds a row, so after any sequence of
\* saves on N instances the table holds N rows.
C14_SaveAssignsIds ==
    /\ []IdsInSequence
    /\ [][SaveStep]_vars

\* C14 witness: two blogs were saved, the first one again after its title
\* had changed; the table holds two rows
C14_Witness ==
    /\ Len(tables["Blog"]) = 2
    /\ Saved("Blog") = {1, 2}
    /\ instances[1].id = PyInt(1)
    /\ instances[2].id = PyInt(2)
    /\ instances[1].title = PyStr(<<"b">>)
    /\ TitleOf(tables["Blog"][1]) = PyStr(<<"\"", "b", "\"">>)
    /\ TitleOf(tables["Blog"][2]) = PyStr(<<"\"", "a", "\"">>)
    /\ rlast.op = "save"

\* C19: for every instance, after any interleaving of forward-relation
\* assignments and save() calls on the instance and on the records assigned
\* to it, whenever a cached related record is present the stored foreign-key
\* id equals the current id of that record (also when the record was
\* assigned while unsaved and saved afterwards).
C19_StoredIdFollowsCache ==
    \A e \in 1..Len(instances) :
        instances[e].cache # 0 =>
            instances[e].blog_id = instances[instances[e].cache].id

\* the names under which the schema holds a primary-key field
PrimaryKeys ==
    {meta_fields[i][1] : i \in {k \in 1..Len(meta_fields) : meta_fields[k][2] = "PrimaryKeyField"}}

\* C15: for every record-type definition, whether it declares no primary-key
\* field, one under any attribute name, or several, the schema contains
\* exactly one primary-key field and that field is registered under the
\* name id.
C15_OnePrimaryKeyNamedId ==
    last.op = "class" =>
        /\ Cardinality({k \in 1..Len(meta_fields) : meta_fields[k][2] = "PrimaryKeyField"}) = 1
        /\ PrimaryKeys = {"id"}

\* the clause for the adjacent pair (Path[i-1], Path[i]): the foreign-key
\* column on the side of the type that owns it, the key owned by the
\* earlier type when both own one
JoinClause(i) ==
    LET prev == Path[i - 1]
        curr == Path[i]
        head == <<"INNER JOIN ", db_table(curr), " AS ">> \o Alias(i) \o <<" ON ">>
    IN  IF OwnsFk(prev, curr)
        THEN head \o Alias(i - 1) \o <<".", FkColumn(prev, curr), " = ">>
                  \o Alias(i) \o <<".", "id">>
        ELSE head \o Alias(i - 1) \o <<".", "id", " = ">>
                  \o Alias(i) \o <<".", FkColumn(curr, prev)>>

\* C16: for each adjacent pair (prev, curr) of the join path the emitted
\* clause is INNER JOIN <curr-table> AS <curr-alias> ON <prev-alias>.<fk
\* column> = <curr-alias>.id when prev owns a foreign key to curr, and ...
\* ON <prev-alias>.id = <curr-alias>.<fk column> when only curr owns one to
\* prev; the foreign-key column is on the side of the type that owns it.
C16_OnClauseDirection ==
    LET c == compile_where(model, _where, _joins)
    IN  /\ c.err = "ok"
        /\ Len(c.computed_joins) = Len(_joins)
        /\ \A i \in 2..Len(Path) : c.computed_joins[i - 1] = JoinClause(i)
        /\ Compiled.err = "ok"
        /\ Count(Compiled.text, "INNER JOIN ") = Len(_joins)

\* C16 witness: a compiled path with a pair joined through the earlier
\* type's foreign key and a pair joined through the later type's
C16_Witness ==
    /\ last.op = "sql"
    /\ Len(Path) = 3
    /\ OwnsFk(Path[1], Path[2])
    /\ ~OwnsFk(Path[2], Path[1])
    /\ OwnsFk(Path[3], Path[2])
    /\ ~OwnsFk(Path[2], Path[3])
    /\ Count(Compiled.text, "INNER JOIN ") = 2

\* the literal of an instance id in a predicate
IdLiteral(id) == IF id = PyNone THEN <<"NULL">> ELSE IntToText(id.v)

\* C17: each read of a reverse relation on an instance returns a new,
\* unexecuted Select builder on the owning (child) type whose only predicate
\* is <fk column> = <instance id>; predicates or ordering chained onto the
\* builder returned by one read never appear in the builder returned by a
\* later read of the same relation.
C17_ReverseReadIsFresh ==
    [][last'.op = "reverse" =>
         LET owner == last'.args[1]
             child == last'.args[2]
             id == last'.args[3]
             fk == FkColumn(child, owner)
         IN  /\ last'.err = "ok"
             /\ model' = child
             /\ query_context' = child
             /\ _joins' = <<>>
             /\ _order_by' = <<>>
             /\ _group_by' = <<>>
             /\ _having' = <<>>
             /\ _pagination' = <<>>
             /\ DOMAIN _where' = {child}
             /\ _where'[child] = << <<fk, <<"= ">> \o IdLiteral(id)>> >>
             /\ Compiled'.text = <<"SELECT ", "*", " FROM ", db_table(child), " ", "WHERE ",
                                   fk, " ">> \o <<"= ">> \o IdLiteral(id)
             /\ nqueries' = nqueries
             /\ tables' = tables]_vars

\* C17 witness: the relation was read again after a predicate and an
\* ordering had been chained onto the builder of an earlier read
C17_Witness ==
    /\ last.op = "reverse"
    /\ last.chained
    /\ last.args = <<"Blog", "Entry", PyInt(1)>>
    /\ _order_by = <<>>
    /\ Len(_where["Entry"]) = 1

\* C18: in every builder state reachable through where(), join() and
\* order_by() calls, each adjacent pair of the path (the root followed by
\* the joined types in order) is connected by a foreign key in at least one
\* direction, so compiling a reachable builder never hits the case of a
\* broken join path.
C18_PathConnected ==
    /\ \A i \in 2..Len(Path) : OwnsFk(Path[i - 1], Path[i]) \/ OwnsFk(Path[i], Path[i - 1])
    /\ query_context = Path[Len(Path)]
    /\ compile_where(model, _where, _joins).err = "ok"
    /\ Compiled.err = "ok"
    /\ last.op = "sql" => last.err = "ok"

\* C18 witness: a builder with two joins, predicates and an ordering has
\* been compiled
C18_Witness ==
    /\ Len(_joins) = 2
    /\ _order_by # <<>>
    /\ DOMAIN _where # {}
    /\ last.op = "sql"
    /\ last.err = "ok"

====
